---- MODULE Spec2Model ----
(***************************************************************************)
(* A model of text_collector_from_tg_transcribed_voices.py: TextFile,      *)
(* TextCollector and main.                                                 *)
(*                                                                         *)
(* Text is a sequence of one-character strings.  A file's data on disk is  *)
(* a sequence of bytes: the ASCII characters stand for themselves and the  *)
(* token "xFF" stands for the byte 0xFF, which no UTF-8 text contains.     *)
(* A path is a sequence of components, relative to the working directory   *)
(* <<>>.                                                                   *)
(***************************************************************************)
EXTENDS Integers, Sequences, FiniteSets, TLC

VARIABLES
  fs,          \* the filesystem: path -> [kind, data, perm]
  args,        \* argparse's namespace: [source_dir, output_file]
  pc,          \* the position of main
  directory_path, \* TextCollector.directory_path
  txt_files,   \* collect_files: the sorted list of candidate paths
  idx,         \* collect_files: the index of the path the for loop is at
  text_files,  \* collect_files' list of records, then main's text_files
  handles,     \* the file objects that are open: [path, mode]
  written,     \* create_markdown: the number of md_file.write calls made
  buffer,      \* md_file's buffer: the text written and not yet flushed
  log,         \* the records handed to the logger
  raised,      \* the exception main ended with and the function that raised it
  runs,        \* the number of invocations of main started
  fs0,         \* history: the filesystem when this invocation started
  prev         \* history: how the previous invocation ended

vars == <<fs, args, pc, directory_path, txt_files, idx, text_files, handles,
          written, buffer, log, raised, runs, fs0, prev>>

(***************************************************************************)
(* Characters.                                                             *)
(***************************************************************************)

\* The characters of the model in code point order (ASCII).
CharOrder ==
  <<"\n", "\r", " ", "#", "+", "-", ".", "0", "1", "2", "3", "4", "5", "6",
    "7", "8", "9", "@", "A", "B", "C", "D", "E", "X", "Z", "_", "a", "b",
    "c", "d", "e", "i", "m", "n", "o", "p", "q", "r", "s", "t", "v", "x",
    "y", "z">>

\* The place of character c in code point order.
CharCode(c) == CHOOSE i \in 1..Len(CharOrder) : CharOrder[i] = c

Digits == <<"0", "1", "2", "3", "4", "5", "6", "7", "8", "9">>

DigitSet == {Digits[i] : i \in 1..Len(Digits)}

DigitVal(c) == (CHOOSE i \in 1..Len(Digits) : Digits[i] = c) - 1

\* str.isspace for the characters of the model.
Whitespace == {" ", "\n", "\r"}

\* The byte that makes a file's data undecodable as UTF-8.
BadByte == "xFF"

(***************************************************************************)
(* str and int.                                                            *)
(***************************************************************************)

\* The first place of sep in s, 0 when there is none.
IndexOf(s, sep) ==
  IF \E i \in 1..Len(s) : s[i] = sep
    THEN CHOOSE i \in 1..Len(s) : s[i] = sep /\ \A j \in 1..(i-1) : s[j] # sep
    ELSE 0

\* str.split(sep): the segments between the occurrences of sep, at least one.
RECURSIVE Split(_, _)
Split(s, sep) ==
  LET i == IndexOf(s, sep) IN
  IF i = 0 THEN <<s>>
  ELSE <<SubSeq(s, 1, i - 1)>> \o Split(SubSeq(s, i + 1, Len(s)), sep)

\* str.strip(): s without its leading and trailing whitespace.
RECURSIVE Strip(_)
Strip(s) ==
  IF s = <<>> THEN s
  ELSE IF s[1] \in Whitespace THEN Strip(Tail(s))
  ELSE IF s[Len(s)] \in Whitespace THEN Strip(SubSeq(s, 1, Len(s) - 1))
  ELSE s

\* The value of a non-empty sequence of decimal digits.
RECURSIVE DecimalValue(_)
DecimalValue(ds) ==
  IF ds = <<>> THEN 0
  ELSE 10 * DecimalValue(SubSeq(ds, 1, Len(ds) - 1)) + DigitVal(ds[Len(ds)])

\* int(tok): surrounding whitespace is dropped, one sign is allowed, and the
\* rest is one or more decimal digits; anything else is a ValueError.  (An
\* underscore between digits cannot reach int here: the token is a segment
\* of a split on "_".)
ParseInt(tok) ==
  LET t      == Strip(tok)
      signed == t # <<>> /\ t[1] \in {"+", "-"}
      ds     == IF signed THEN Tail(t) ELSE t
      good   == ds # <<>> /\ \A i \in 1..Len(ds) : ds[i] \in DigitSet
  IN IF ~good THEN [ok |-> FALSE, val |-> 0]
     ELSE [ok |-> TRUE,
           val |-> IF signed /\ t[1] = "-" THEN 0 - DecimalValue(ds)
                   ELSE DecimalValue(ds)]

(***************************************************************************)
(* TextFile.                                                               *)
(***************************************************************************)

\* The dataclass TextFile.
TextFile(filename, content, order) ==
  [filename |-> filename, content |-> content, order |-> order]

\* The tokens when the name is not cut at its first "@".
OrderTokens_whole_name(filename) == Split(filename, "_")

\* filename.split('@')[0].split('_'): the tokens the order is taken from.
OrderTokens(filename) == Split(Split(filename, "@")[1], "_")

\* from_filename with a fallback order for a name it cannot parse.
from_filename_fallback(filename, content) ==
  LET toks == OrderTokens(filename) IN
  IF Len(toks) >= 2 /\ ParseInt(toks[2]).ok
    THEN [ok |-> TRUE, rec |-> TextFile(filename, content, ParseInt(toks[2]).val)]
    ELSE [ok |-> TRUE, rec |-> TextFile(filename, content, 0)]

\* TextFile.from_filename: the record, or the exception it logs and raises.
from_filename(filename, content) ==
  LET toks == OrderTokens(filename) IN
  IF Len(toks) < 2 THEN [ok |-> FALSE, exc |-> "IndexError"]
  ELSE IF ~ParseInt(toks[2]).ok THEN [ok |-> FALSE, exc |-> "ValueError"]
  ELSE [ok |-> TRUE, rec |-> TextFile(filename, content, ParseInt(toks[2]).val)]

(***************************************************************************)
(* Paths and the filesystem.                                               *)
(***************************************************************************)

Min(a, b) == IF a < b THEN a ELSE b

\* str.__lt__: code point order, a proper prefix first.
StrLess(a, b) ==
  \E i \in 1..(Min(Len(a), Len(b)) + 1) :
     /\ \A j \in 1..(i - 1) : a[j] = b[j]
     /\ \/ i > Len(a) /\ i <= Len(b)
        \/ i <= Len(a) /\ i <= Len(b) /\ CharCode(a[i]) < CharCode(b[i])

\* PurePath.__lt__: the lists of components compared as lists of str.
PathLess(p, q) ==
  \E i \in 1..(Min(Len(p), Len(q)) + 1) :
     /\ \A j \in 1..(i - 1) : p[j] = q[j]
     /\ \/ i > Len(p) /\ i <= Len(q)
        \/ i <= Len(p) /\ i <= Len(q) /\ StrLess(p[i], q[i])

\* Path.name and Path.parent.
Name(p) == p[Len(p)]

Parent(p) == SubSeq(p, 1, Len(p) - 1)

\* The working directory, which exists throughout.
Cwd == <<>>

Dir(perm) == [kind |-> "dir", data |-> <<>>, perm |-> perm]

\* A directory as mkdir makes it.
DirNode == Dir("rwx")

FileNode(data, perm) == [kind |-> "file", data |-> data, perm |-> perm]

\* The modes of a directory that let it be listed, let its entries be looked
\* up, and let entries be made in it.
DirReads == {"rwx", "rx", "rw", "r"}

DirSearches == {"rwx", "rx", "wx", "x"}

DirWrites == {"rwx", "wx"}

\* The mode of directory d; the working directory is open to the program.
DirPerm(f, d) == IF d = Cwd THEN "rwx" ELSE f[d].perm

\* The operating system's walk along path p from component k on: "ok" when
\* p names a node, else the error of the first component that fails.
RECURSIVE Lookup(_, _, _)
Lookup(f, p, k) ==
  LET a == SubSeq(p, 1, k) IN
  IF k > Len(p) THEN "ok"
  ELSE IF a \notin DOMAIN f THEN "ENOENT"
  ELSE IF k = Len(p) THEN "ok"
  ELSE IF f[a].kind = "file" THEN "ENOTDIR"
  ELSE IF f[a].perm \notin DirSearches THEN "EACCES"
  ELSE Lookup(f, p, k + 1)

\* os.stat of path p.
Stat(f, p) == Lookup(f, p, 1)

\* Path.exists, Path.is_dir and Path.is_file raise the PermissionError of a
\* stat that may not search a directory of the path; they answer False for
\* a path that is missing or runs through a regular file.
Denied(f, p) == Stat(f, p) = "EACCES"

\* The constructor's check left out.
Exists_unchecked(f, p) == TRUE

\* Path.exists, Path.is_dir and Path.is_file on filesystem f, when the stat
\* is not denied.
Exists(f, p) == Stat(f, p) = "ok"

IsDir(f, p) == Stat(f, p) = "ok" /\ (p = Cwd \/ f[p].kind = "dir")

IsFile(f, p) == Stat(f, p) = "ok" /\ p # Cwd /\ f[p].kind = "file"

\* The suffix '.txt' of the glob pattern.
Txt == <<".", "t", "x", "t">>

\* The glob pattern '*'.
MatchesTxt_any_name(name) == TRUE

\* fnmatch of a name against '*.txt'.
MatchesTxt(name) ==
  Len(name) >= Len(Txt) /\ SubSeq(name, Len(name) - Len(Txt) + 1, Len(name)) = Txt

\* The paths directory.glob('*.txt') yields.  The glob of a path that is no
\* directory yields nothing, and so does the glob of a directory that may
\* not be listed: the selector swallows the PermissionError of scandir.
Glob(f, directory) ==
  IF ~IsDir(f, directory) \/ DirPerm(f, directory) \notin DirReads THEN {}
  ELSE {p \in DOMAIN f : p # Cwd /\ Parent(p) = directory /\ MatchesTxt(Name(p))}

\* The exception of evaluating the generator sorted() is given, "none" when
\* there is none: the PermissionError of the glob's is_dir on a directory it
\* may not reach, or of is_file on a path the glob has yielded from a
\* directory that may be listed and may not be searched.
ScanError(f, directory) ==
  IF Denied(f, directory) THEN "PermissionError"
  ELSE IF Glob(f, directory) # {} /\ DirPerm(f, directory) \notin DirSearches
    THEN "PermissionError"
  ELSE "none"

\* The paths sorted() is given: directory.glob('*.txt') filtered by is_file.
Candidates(f, directory) == {p \in Glob(f, directory) : IsFile(f, p)}

\* The orders in which the glob can yield the set S of paths.
Listings(S) ==
  {l \in [1..Cardinality(S) -> S] : \A i, j \in 1..Cardinality(S) : l[i] = l[j] => i = j}

\* One insertion of sorted(): p goes before the first path greater than it.
RECURSIVE InsertPath(_, _)
InsertPath(p, l) ==
  IF l = <<>> THEN <<p>>
  ELSE IF PathLess(p, l[1]) THEN <<p>> \o l
  ELSE <<l[1]>> \o InsertPath(p, Tail(l))

\* The paths in the order the glob yields them.
Sorted_as_listed(l) == l

\* sorted(paths): ascending by PurePath order.
RECURSIVE Sorted(_)
Sorted(l) ==
  IF l = <<>> THEN <<>>
  ELSE InsertPath(l[Len(l)], Sorted(SubSeq(l, 1, Len(l) - 1)))

\* One insertion of list.sort(key=order): r goes after every record whose
\* order is not greater, which is what keeps the sort stable.
RECURSIVE InsertByOrder(_, _)
InsertByOrder(r, l) ==
  IF l = <<>> THEN <<r>>
  ELSE IF r.order < l[1].order THEN <<r>> \o l
  ELSE <<l[1]>> \o InsertByOrder(r, Tail(l))

\* The records left in the order they were read.
SortByOrder_as_read(l) == l

\* text_files.sort(key=lambda x: x.order).
RECURSIVE SortByOrder(_)
SortByOrder(l) ==
  IF l = <<>> THEN <<>>
  ELSE InsertByOrder(l[Len(l)], SortByOrder(SubSeq(l, 1, Len(l) - 1)))

\* Universal newlines of a text-mode read: "\r\n" and "\r" become "\n".
RECURSIVE Newlines(_)
Newlines(d) ==
  IF d = <<>> THEN <<>>
  ELSE IF d[1] = "\r" /\ Len(d) >= 2 /\ d[2] = "\n"
    THEN <<"\n">> \o Newlines(SubSeq(d, 3, Len(d)))
  ELSE IF d[1] = "\r" THEN <<"\n">> \o Newlines(Tail(d))
  ELSE <<d[1]>> \o Newlines(Tail(d))

\* file.read() of a file opened with encoding='utf-8': the text, or a
\* UnicodeDecodeError when the data is not UTF-8.
Read(data) ==
  IF \E i \in 1..Len(data) : data[i] = BadByte
    THEN [ok |-> FALSE, exc |-> "UnicodeDecodeError"]
    ELSE [ok |-> TRUE, text |-> Newlines(data)]

\* The two strings create_markdown writes for a record.
Heading(r) == <<"#", " ">> \o r.filename \o <<"\n", "\n">>

Body(r) == r.content \o <<"\n", "\n">>

\* The k-th string written for the list l of records (k from 1).
Piece(l, k) ==
  IF k % 2 = 1 THEN Heading(l[(k + 1) \div 2]) ELSE Body(l[k \div 2])

\* The proper prefixes of path p, shortest first, with p itself.
Chain(p) == {SubSeq(p, 1, k) : k \in 1..Len(p)}

\* The longest prefix of path p that filesystem f holds (Cwd when none).
Deepest(f, p) ==
  LET K == {k \in 0..Len(p) : \A j \in 1..k : SubSeq(p, 1, j) \in DOMAIN f}
  IN SubSeq(p, 1, CHOOSE k \in K : \A j \in K : j <= k)

\* Path.mkdir(parents=True, exist_ok=True) of directory d: the filesystem
\* after it, or the error: of a component that exists and is no directory,
\* of a directory of the path that may not be searched, or of the directory
\* the first missing component would be made in, which may not be written.
Mkdir(f, d) ==
  LET s == Stat(f, d) IN
  IF s = "ok"
    THEN IF IsDir(f, d) THEN [ok |-> TRUE, fs |-> f]
         ELSE [ok |-> FALSE, exc |-> "FileExistsError"]
  ELSE IF s = "ENOTDIR" THEN [ok |-> FALSE, exc |-> "NotADirectoryError"]
  ELSE IF s = "EACCES" THEN [ok |-> FALSE, exc |-> "PermissionError"]
  ELSE IF DirPerm(f, Deepest(f, d)) \notin DirWrites
    THEN [ok |-> FALSE, exc |-> "PermissionError"]
  ELSE [ok |-> TRUE,
        fs |-> [p \in DOMAIN f \cup Chain(d) |->
                  IF p \in DOMAIN f THEN f[p] ELSE DirNode]]

\* A record handed to the logger: the level, the text before the colon (or
\* the whole text), the file it names and the count it reports.
LogRec(level, msg, name, n) == [level |-> level, msg |-> msg, name |-> name, n |-> n]

(***************************************************************************)
(* The directories and arguments the runs start from.                      *)
(***************************************************************************)

\* The most entries a source directory starts with.
MaxFiles == 3

\* The most invocations of main in a row.
MaxRuns == 2

\* File names: the three of the specification's example, one whose order ties
\* with another's and whose path sorts first, one whose order is the least
\* and whose path sorts last, two that from_filename rejects, and one the
\* glob does not match.
N3 == <<"n", "_", "3", "@", "x">> \o Txt

N1 == <<"n", "_", "1", "@", "x">> \o Txt

N2 == <<"n", "_", "2", "@", "x">> \o Txt

A2 == <<"a", "_", "2", "_", "1", "@", "x">> \o Txt

ZNeg == <<"z", "_", "-", "1", "@", "x">> \o Txt

Bad == <<"b", "a", "d">> \o Txt

NX == <<"n", "_", "x", "@", "y">> \o Txt

NMd == <<"n", "_", "5", "@", "x", ".", "m", "d">>

OutMd == <<"o", ".", "m", "d">>

NamePool == {N3, N1, N2, A2, ZNeg, Bad, NX, NMd}

\* The data a plain file of each name holds.
PlainData(name) ==
  CASE name = N3 -> <<"C">>
    [] name = N1 -> <<"A">>
    [] name = N2 -> <<"B">>
    [] name = A2 -> <<"D", "\r", "\n", "E", "\r">>
    [] name = ZNeg -> <<"Z", "\r", "\n", "E">>
    [] name = NX -> <<>>
    [] OTHER -> <<"X">>

\* What an entry that is no plain readable file is: a directory, a file
\* whose data is not UTF-8, a file that may not be opened.
OddNodes == {DirNode, FileNode(<<"A", BadByte>>, "rw"), FileNode(<<"A">>, "none")}

SourceDir == << <<"s">> >>

OutParent == << <<"p">> >>

\* The subsets of S of at most n elements.
UpTo(S, n) == {T \in SUBSET S : Cardinality(T) <= n}

\* The choices of the entries of S that are no plain readable file, and of
\* what they are: none of them, or one.
OddEntries(S) == {<<>>} \cup {(n :> o) : n \in S, o \in OddNodes}

\* The entries of a source directory holding the names S, those of odd as
\* the nodes odd gives.
Entries(S, odd) ==
  [p \in {SourceDir \o <<n>> : n \in S} |->
     IF Name(p) \in DOMAIN odd THEN odd[Name(p)]
     ELSE FileNode(PlainData(Name(p)), "rw")]

\* The modes of a source directory that keep the program from some of it:
\* it may not be written, listed, searched, or any of these.
OddModes == {"rx", "wx", "x", "r", "none"}

\* The source directory with its entries: a directory open to the program
\* with at most one entry that is no plain readable file, or a directory of
\* another mode with plain readable files.
SourceTrees(pool) ==
  UNION {{(SourceDir :> DirNode) @@ Entries(S, odd) : odd \in OddEntries(S)}
           \cup {(SourceDir :> Dir(m)) @@ Entries(S, <<>>) : m \in OddModes} :
         S \in UpTo(pool, MaxFiles)}

\* What is at the source path: nothing, a regular file, or a directory.
Sources(pool) ==
  {<<>>, (SourceDir :> FileNode(<<"A">>, "rw"))} \cup SourceTrees(pool)

\* The output path and what is around it: the path outside the source
\* directory with its parent missing, present, or a regular file, and the
\* output missing, present, unwritable, or a directory; a path two missing
\* directories deep; a path inside the source directory; a path in or two
\* directories below a parent that may not be written.
Outputs ==
  LET out == OutParent \o <<OutMd>> IN
  { [output_file |-> out, around |-> <<>>],
    [output_file |-> out, around |-> (OutParent :> DirNode)],
    [output_file |-> out,
     around |-> (OutParent :> DirNode) @@ (out :> FileNode(<<"Z">>, "rw"))],
    [output_file |-> out,
     around |-> (OutParent :> DirNode) @@ (out :> FileNode(<<"Z">>, "none"))],
    [output_file |-> out, around |-> (OutParent :> DirNode) @@ (out :> DirNode)],
    [output_file |-> out, around |-> (OutParent :> FileNode(<<"Z">>, "rw"))],
    [output_file |-> OutParent \o << <<"q">>, OutMd >>, around |-> <<>>],
    [output_file |-> SourceDir \o <<N2>>, around |-> <<>>],
    [output_file |-> out, around |-> (OutParent :> Dir("rx"))],
    [output_file |-> OutParent \o << <<"q">>, OutMd >>,
     around |-> (OutParent :> Dir("rx"))] }

\* No exception.
NoExc == [exc |-> "none", at |-> "none"]

\* No invocation before this one.
NoRun == [status |-> "none", fs0 |-> <<>>, fs |-> <<>>]

\* The state main starts in, given the filesystem and the arguments.
Start(f, a, n, last) ==
  /\ fs = f
  /\ args = a
  /\ pc = "main"
  /\ directory_path = <<>>
  /\ txt_files = <<>>
  /\ idx = 0
  /\ text_files = <<>>
  /\ handles = {}
  /\ written = 0
  /\ buffer = <<>>
  /\ log = <<>>
  /\ raised = NoExc
  /\ runs = n
  /\ fs0 = f
  /\ prev = last

Init ==
  \E src \in Sources(NamePool), out \in Outputs :
     Start(src @@ out.around,
           [source_dir |-> SourceDir, output_file |-> out.output_file],
           1, NoRun)

(***************************************************************************)
(* main, TextCollector.__init__, collect_files and create_markdown.        *)
(***************************************************************************)

\* A file object that is not closed.
ExitWith_left_open(hs, h) == hs

\* The file objects left open when the with block of file object h is left,
\* normally or by an exception.
ExitWith(hs, h) == hs \ {h}

\* The data of a file just opened with mode 'a'.
Truncated_appending(data) == data

\* The data of a file just opened with mode 'w'.
Truncated(data) == <<>>

\* main's except clause: the error is logged and raised again, and the
\* interpreter ends with it.
Critical(l) == Append(l, LogRec("ERROR", "Critical error", <<>>, 0))

\* main's except clause without its raise: the error is logged and main
\* returns.
Fail_swallowed(l, exc, at) ==
  /\ log' = Critical(l)
  /\ raised' = NoExc
  /\ pc' = "done"

\* An exception exc raised in function at, with log l, reaches main.
Fail(l, exc, at) ==
  /\ log' = Critical(l)
  /\ raised' = [exc |-> exc, at |-> at]
  /\ pc' = "failed"

\* collector = TextCollector(args.source_dir)
TextCollector_init ==
  /\ pc = "main"
  /\ directory_path' = args.source_dir
  /\ IF Denied(fs, args.source_dir)
       THEN Fail(log, "PermissionError", "__init__")
     ELSE IF ~Exists(fs, args.source_dir)
       THEN Fail(log, "FileNotFoundError", "__init__")
     ELSE pc' = "collect" /\ UNCHANGED <<log, raised>>
  /\ UNCHANGED <<fs, args, txt_files, idx, text_files, handles, written, buffer,
                 runs, fs0, prev>>

\* collect_files' except clause.
CollectError(l) == Append(l, LogRec("ERROR", "Error collecting files", <<>>, 0))

\* collect_files, lines 49-56 and 75-77: the glob yields the candidates in
\* some order and sorted() orders them; a PermissionError of is_dir or
\* is_file is logged and raised.
collect_files_scan ==
  /\ pc = "collect"
  /\ IF ScanError(fs, directory_path) # "none"
       THEN /\ Fail(CollectError(log), ScanError(fs, directory_path),
                    "collect_files")
            /\ UNCHANGED <<txt_files, text_files, idx>>
       ELSE /\ \E l \in Listings(Candidates(fs, directory_path)) :
                  txt_files' = Sorted(l)
            /\ text_files' = <<>>
            /\ idx' = 1
            /\ pc' = "loop"
            /\ UNCHANGED <<log, raised>>
  /\ UNCHANGED <<fs, args, directory_path, handles, written, buffer,
                 runs, fs0, prev>>

\* collect_files, lines 53-56 and 75-77: listing the directory fails with an
\* error of the operating system other than the lack of permission (no
\* descriptor left, an error of the device), which collect_files logs and
\* raises.
collect_files_scan_error ==
  /\ pc = "collect"
  /\ IsDir(fs, directory_path)
  /\ Fail(CollectError(log), "OSError", "collect_files")
  /\ UNCHANGED <<fs, args, directory_path, txt_files, idx, text_files, handles,
                 written, buffer, runs, fs0, prev>>

\* collect_files, lines 59-61 and 68-69: the next path is opened for reading.
collect_files_open ==
  /\ pc = "loop"
  /\ idx <= Len(txt_files)
  /\ LET file_path == txt_files[idx] IN
     IF IsFile(fs, file_path) /\ fs[file_path].perm # "none"
       THEN /\ handles' = handles \cup {[path |-> file_path, mode |-> "r"]}
            /\ pc' = "read"
            /\ UNCHANGED <<idx, log>>
       ELSE /\ log' = Append(log, LogRec("ERROR", "Error reading file", file_path, 0))
            /\ idx' = idx + 1
            /\ UNCHANGED <<handles, pc>>
  /\ UNCHANGED <<fs, args, directory_path, txt_files, text_files, written, buffer,
                 raised, runs, fs0, prev>>

\* collect_files, lines 62-69: the file is read, the record is made from its
\* name and appended, and the with block is left; an exception of the read
\* or of from_filename is logged and the loop goes on.
collect_files_read ==
  /\ pc = "read"
  /\ LET file_path == txt_files[idx]
         h   == [path |-> file_path, mode |-> "r"]
         got == Read(fs[file_path].data)
         made == from_filename(Name(file_path), got.text)
         err == LogRec("ERROR", "Error reading file", file_path, 0)
     IN /\ handles' = ExitWith(handles, h)
        /\ IF ~got.ok
             THEN /\ log' = Append(log, err)
                  /\ UNCHANGED text_files
           ELSE IF ~made.ok
             THEN /\ log' = log \o <<LogRec("ERROR", "Error processing filename",
                                            Name(file_path), 0), err>>
                  /\ UNCHANGED text_files
           ELSE /\ text_files' = Append(text_files, made.rec)
                /\ UNCHANGED log
  /\ idx' = idx + 1
  /\ pc' = "loop"
  /\ UNCHANGED <<fs, args, directory_path, txt_files, written, buffer, raised,
                 runs, fs0, prev>>

\* collect_files, lines 71-73: the records are sorted by order and returned.
collect_files_return ==
  /\ pc = "loop"
  /\ idx > Len(txt_files)
  /\ text_files' = SortByOrder(text_files)
  /\ pc' = "write"
  /\ UNCHANGED <<fs, args, directory_path, txt_files, idx, handles, written, buffer,
                 log, raised, runs, fs0, prev>>

\* create_markdown, lines 81-82: the parent directories are made; an error
\* is raised outside the try block, so only main logs it.
create_markdown_mkdir ==
  /\ pc = "write"
  /\ LET made == Mkdir(fs, Parent(args.output_file)) IN
     IF made.ok
       THEN /\ fs' = made.fs
            /\ pc' = "open"
            /\ UNCHANGED <<log, raised>>
       ELSE /\ Fail(log, made.exc, "create_markdown")
            /\ UNCHANGED fs
  /\ UNCHANGED <<args, directory_path, txt_files, idx, text_files, handles,
                 written, buffer, runs, fs0, prev>>

\* The exception of open(output_path, 'w'), "none" when it opens: the path
\* is a directory, a file that may not be written, a path through a
\* directory that may not be searched, or a new file of a directory that
\* may not be written.
OpenError(f, p) ==
  LET s == Stat(f, p) IN
  IF s = "EACCES" THEN "PermissionError"
  ELSE IF s = "ENOTDIR" THEN "NotADirectoryError"
  ELSE IF s = "ok"
    THEN IF IsDir(f, p) THEN "IsADirectoryError"
         ELSE IF f[p].perm = "none" THEN "PermissionError"
         ELSE "none"
  ELSE IF ~Exists(f, Parent(p)) THEN "FileNotFoundError"
  ELSE IF DirPerm(f, Parent(p)) \notin DirWrites THEN "PermissionError"
  ELSE "none"

\* create_markdown's except clause.
MarkdownError(l) == Append(l, LogRec("ERROR", "Error creating markdown file", <<>>, 0))

\* create_markdown, line 85 and 92-94: the output file is opened for
\* writing, which creates or truncates it.
create_markdown_open ==
  /\ pc = "open"
  /\ LET p == args.output_file IN
     IF OpenError(fs, p) = "none"
       THEN /\ fs' = [q \in DOMAIN fs \cup {p} |->
                        IF q = p
                          THEN FileNode(IF IsFile(fs, p) THEN Truncated(fs[p].data)
                                        ELSE <<>>, "rw")
                          ELSE fs[q]]
            /\ handles' = handles \cup {[path |-> p, mode |-> "w"]}
            /\ written' = 0
            /\ buffer' = <<>>
            /\ pc' = "writing"
            /\ UNCHANGED <<log, raised>>
       ELSE /\ Fail(MarkdownError(log), OpenError(fs, p), "create_markdown")
            /\ UNCHANGED <<fs, handles, written, buffer>>
  /\ UNCHANGED <<args, directory_path, txt_files, idx, text_files,
                 runs, fs0, prev>>

\* create_markdown, lines 86-88: one md_file.write.  md_file is a buffered
\* text file: the string goes to its buffer, and the file on disk stays as
\* open left it until the buffer is flushed.  (The buffer holds 8192 bytes;
\* the documents of the model are shorter, so no write flushes.)
create_markdown_write ==
  /\ pc = "writing"
  /\ written < 2 * Len(text_files)
  /\ buffer' = buffer \o Piece(text_files, written + 1)
  /\ written' = written + 1
  /\ UNCHANGED <<fs, args, pc, directory_path, txt_files, idx, text_files,
                 handles, log, raised, runs, fs0, prev>>

\* The files after k characters of the buffer b have reached the file p.
Flushed(f, p, b, k) == [f EXCEPT ![p].data = @ \o SubSeq(b, 1, k)]

\* create_markdown, lines 85-90: the with block is left, which flushes the
\* buffer to the file and closes it, and the count of the records is logged;
\* main returns.
create_markdown_close ==
  /\ pc = "writing"
  /\ written = 2 * Len(text_files)
  /\ fs' = Flushed(fs, args.output_file, buffer, Len(buffer))
  /\ buffer' = <<>>
  /\ handles' = ExitWith(handles, [path |-> args.output_file, mode |-> "w"])
  /\ log' = Append(log, LogRec("INFO", "Created file", args.output_file,
                               Len(text_files)))
  /\ pc' = "done"
  /\ UNCHANGED <<args, directory_path, txt_files, idx, text_files, written,
                 raised, runs, fs0, prev>>

\* create_markdown, lines 85-88 and 92-94: the flush of leaving the with
\* block fails with an error of the operating system (no space, a size
\* limit) after some of the buffer, but not all of it, has reached the file;
\* the file is closed, and create_markdown logs the error and raises it.
create_markdown_close_error ==
  /\ pc = "writing"
  /\ written = 2 * Len(text_files)
  /\ buffer # <<>>
  /\ \E k \in 0..(Len(buffer) - 1) :
       fs' = Flushed(fs, args.output_file, buffer, k)
  /\ buffer' = <<>>
  /\ handles' = ExitWith(handles, [path |-> args.output_file, mode |-> "w"])
  /\ Fail(MarkdownError(log), "OSError", "create_markdown")
  /\ UNCHANGED <<args, directory_path, txt_files, idx, text_files, written,
                 runs, fs0, prev>>

Next ==
  \/ TextCollector_init
  \/ collect_files_scan
  \/ collect_files_scan_error
  \/ collect_files_open
  \/ collect_files_read
  \/ collect_files_return
  \/ create_markdown_mkdir
  \/ create_markdown_open
  \/ create_markdown_write
  \/ create_markdown_close
  \/ create_markdown_close_error

Spec == Init /\ [][Next]_vars

(***************************************************************************)
(* The program run again with the same arguments.                          *)
(***************************************************************************)

RerunPool == {N3, N1, N2, Bad}

InitRerun ==
  \E src \in Sources(RerunPool), out \in Outputs :
     Start(src @@ out.around,
           [source_dir |-> SourceDir, output_file |-> out.output_file],
           1, NoRun)

\* main is invoked again after a run that has ended well, on the filesystem
\* that run left.
main_again ==
  /\ pc = "done"
  /\ runs < MaxRuns
  /\ pc' = "main"
  /\ directory_path' = <<>>
  /\ txt_files' = <<>>
  /\ idx' = 0
  /\ text_files' = <<>>
  /\ handles' = {}
  /\ written' = 0
  /\ buffer' = <<>>
  /\ log' = <<>>
  /\ raised' = NoExc
  /\ runs' = runs + 1
  /\ fs0' = fs
  /\ prev' = [status |-> pc, fs0 |-> fs0, fs |-> fs]
  /\ UNCHANGED <<fs, args>>

NextRerun == Next \/ main_again

SpecRerun == InitRerun /\ [][NextRerun]_vars

(***************************************************************************)
(* TextFile.from_filename called on its own.                               *)
(***************************************************************************)

\* The longest file name from_filename is given.
MaxNameLen == 5

NameChars == {"a", "_", "1", "0", "@", "-", "+", " "}

Voice42 ==
  <<"v", "o", "i", "c", "e", "_", "4", "2", "@", "2", "0", "2", "3", "-", "0",
    "1", "-", "0", "1">> \o Txt

A12 == <<"a", "_", "1", "_", "2", "@", "x">> \o Txt

\* Every name of at most MaxNameLen characters, and the names of the examples.
ParseNames ==
  UNION {[1..n -> NameChars] : n \in 0..MaxNameLen} \cup NamePool \cup {Voice42, A12}

InitParse ==
  \E name \in ParseNames :
     /\ fs = <<>>
     /\ args = [source_dir |-> SourceDir, output_file |-> OutParent \o <<OutMd>>]
     /\ pc = "from_filename"
     /\ directory_path = SourceDir
     /\ txt_files = <<SourceDir \o <<name>>>>
     /\ idx = 1
     /\ text_files = <<>>
     /\ handles = {}
     /\ written = 0
     /\ buffer = <<>>
     /\ log = <<>>
     /\ raised = NoExc
     /\ runs = 1
     /\ fs0 = <<>>
     /\ prev = NoRun

\* text_file = TextFile.from_filename(filename=file_path.name, content=content)
from_filename_call ==
  /\ pc = "from_filename"
  /\ LET filename == Name(txt_files[idx])
         made == from_filename(filename, <<"A">>)
     IN IF made.ok
          THEN /\ text_files' = <<made.rec>>
               /\ pc' = "returned"
               /\ UNCHANGED <<log, raised>>
          ELSE /\ log' = Append(log, LogRec("ERROR", "Error processing filename",
                                            filename, 0))
               /\ raised' = [exc |-> made.exc, at |-> "from_filename"]
               /\ pc' = "raised"
               /\ UNCHANGED text_files
  /\ UNCHANGED <<fs, args, directory_path, txt_files, idx, handles, written, buffer,
                 runs, fs0, prev>>

NextParse == from_filename_call

SpecParse == InitParse /\ [][NextParse]_vars

(***************************************************************************)
(* What the specification says of a file name, stated by positions.        *)
(***************************************************************************)

\* The least element of a non-empty set of integers.
Least(S) == CHOOSE i \in S : \A j \in S : i <= j

\* The place where the part of the name before the first "@" ends.
HeadEnd(name) ==
  LET ats == {i \in 1..Len(name) : name[i] = "@"} IN
  IF ats = {} THEN Len(name) ELSE Least(ats) - 1

\* The places of "_" before the first "@".
Underscores(name) == {i \in 1..HeadEnd(name) : name[i] = "_"}

\* The second "_"-separated token of the part before the first "@": it runs
\* from the first "_" to the second one, or to the end of the part.
HasKeyToken(name) == Underscores(name) # {}

KeyToken(name) ==
  LET first == Least(Underscores(name))
      later == {i \in Underscores(name) : i > first}
  IN SubSeq(name, first + 1, IF later = {} THEN HeadEnd(name) ELSE Least(later) - 1)

\* t is the text of an integer: whitespace, one optional sign, one or more
\* digits, whitespace.
IsIntegerText(t) ==
  \E i \in 0..Len(t), j \in 0..Len(t) :
     /\ i < j
     /\ \A k \in 1..i : t[k] \in Whitespace
     /\ \A k \in (j + 1)..Len(t) : t[k] \in Whitespace
     /\ t[i + 1] \in DigitSet \cup {"+", "-"}
     /\ t[j] \in DigitSet
     /\ \A k \in (i + 2)..j : t[k] \in DigitSet

RECURSIVE Pow10(_)
Pow10(n) == IF n = 0 THEN 1 ELSE 10 * Pow10(n - 1)

\* The sum of the digits of t at places i and later, each with its weight.
RECURSIVE Weighted(_, _)
Weighted(t, i) ==
  IF i > Len(t) THEN 0
  ELSE Weighted(t, i + 1) +
       (IF t[i] \in DigitSet
          THEN DigitVal(t[i]) * Pow10(Cardinality({k \in (i + 1)..Len(t) : t[k] \in DigitSet}))
          ELSE 0)

\* The integer a text of an integer stands for.
IntegerValue(t) ==
  IF \E k \in 1..Len(t) : t[k] = "-" THEN 0 - Weighted(t, 1) ELSE Weighted(t, 1)

\* The name has an order key, and the key.
HasOrderKey(name) == HasKeyToken(name) /\ IsIntegerText(KeyToken(name))

OrderKey(name) == IntegerValue(KeyToken(name))

\* The name with the part from its first "@" on replaced by tail.
WithTail(name, tail) == SubSeq(name, 1, HeadEnd(name)) \o tail

(***************************************************************************)
(* What the specification says of the files and of the document.           *)
(***************************************************************************)

\* The text of a file's data at places i and later: "\r\n" and "\r" read as
\* "\n".
RECURSIVE TextFrom(_, _)
TextFrom(data, i) ==
  IF i > Len(data) THEN <<>>
  ELSE IF data[i] = "\n" /\ i > 1 /\ data[i - 1] = "\r" THEN TextFrom(data, i + 1)
  ELSE <<IF data[i] = "\r" THEN "\n" ELSE data[i]>> \o TextFrom(data, i + 1)

TextOf(data) == TextFrom(data, 1)

IsUtf8(data) == \A i \in 1..Len(data) : data[i] # BadByte

EndsWithTxt(name) == \E k \in 0..Len(name) : name = SubSeq(name, 1, k) \o Txt

\* The regular files directly inside directory dir of filesystem f whose
\* names end with ".txt".
RegularTxt(f, dir) ==
  {p \in DOMAIN f : /\ Len(p) = Len(dir) + 1
                    /\ SubSeq(p, 1, Len(dir)) = dir
                    /\ f[p].kind = "file"
                    /\ EndsWithTxt(p[Len(p)])}

\* Directory dir of filesystem f lets the program list it and reach what it
\* lists.
Listed(f, dir) == f[dir].perm \in {"rwx", "rx"}

\* The candidates: the regular ".txt" files of a directory the program may
\* list and search; of another directory the program finds no file.
CandidateFiles(f, dir) == IF Listed(f, dir) THEN RegularTxt(f, dir) ELSE {}

\* The file can be found and be read as UTF-8.
Readable(f, p) ==
  /\ Listed(f, SubSeq(p, 1, Len(p) - 1))
  /\ f[p].perm # "none"
  /\ IsUtf8(f[p].data)

\* The file qualifies: its name has an order key and it can be read.
Qualifies(f, p) == HasOrderKey(p[Len(p)]) /\ Readable(f, p)

\* The name is <prefix>_<integer>@<suffix>.txt: a prefix without "_" and
\* "@", an integer of digits with an optional sign, any suffix.
ValidName(name) ==
  \E u \in 2..Len(name), a \in 2..Len(name) :
     /\ u + 1 < a
     /\ a + Len(Txt) <= Len(name)
     /\ \A k \in 1..(u - 1) : name[k] \notin {"_", "@"}
     /\ name[u] = "_"
     /\ name[a] = "@"
     /\ name[u + 1] \in DigitSet \cup {"+", "-"}
     /\ name[a - 1] \in DigitSet
     /\ \A k \in (u + 2)..(a - 1) : name[k] \in DigitSet
     /\ EndsWithTxt(name)

\* The block of a file.
Block(name, text) ==
  <<"#", " ">> \o name \o <<"\n", "\n">> \o text \o <<"\n", "\n">>

\* The blocks of the files at the paths of l, in the order of l, with the
\* text the files hold in filesystem f.
RECURSIVE DocumentOfFiles(_, _)
DocumentOfFiles(l, f) ==
  IF Len(l) = 0 THEN <<>>
  ELSE Block(l[1][Len(l[1])], TextOf(f[l[1]].data))
         \o DocumentOfFiles([i \in 1..(Len(l) - 1) |-> l[i + 1]], f)

\* The blocks of the records of l, in the order of l.
RECURSIVE DocumentOfRecords(_)
DocumentOfRecords(l) ==
  IF Len(l) = 0 THEN <<>>
  ELSE Block(l[1].filename, l[1].content)
         \o DocumentOfRecords([i \in 1..(Len(l) - 1) |-> l[i + 1]])

\* doc holds block as a run of consecutive characters.
Contains(doc, block) ==
  \E k \in 0..(Len(doc) - Len(block)) : SubSeq(doc, k + 1, k + Len(block)) = block

IsPrefix(a, b) == Len(a) <= Len(b) /\ a = SubSeq(b, 1, Len(a))

\* What the output file holds.
OutputData == fs[args.output_file].data

\* collect_files has returned in this invocation.
Collected ==
  \/ pc \in {"write", "open", "writing", "done"}
  \/ pc = "failed" /\ raised.at = "create_markdown"

\* main has ended.
Ended == pc \in {"done", "failed"}

\* Path a is a directory of filesystem f whose mode is none of modes.
DirWithout(f, a, modes) ==
  a \in DOMAIN f /\ f[a].kind = "dir" /\ f[a].perm \notin modes

\* The parent directories of the output path cannot be made in filesystem
\* f: a component of the parent path is a regular file, or a directory
\* above the parent that may not be searched, or is missing from a
\* directory that may not be written.
MkdirBlocked(f) ==
  \E k \in 1..(Len(args.output_file) - 1) :
     LET a == SubSeq(args.output_file, 1, k) IN
     \/ a \in DOMAIN f /\ f[a].kind = "file"
     \/ k < Len(args.output_file) - 1 /\ DirWithout(f, a, {"rwx", "rx", "wx", "x"})
     \/ a \notin DOMAIN f /\ DirWithout(f, SubSeq(a, 1, k - 1), {"rwx", "wx"})

\* The output path cannot be opened for writing in filesystem f: it is a
\* directory, or a file that may not be written, or its parent directory
\* may not be searched, or it is missing and its parent directory may not
\* be written.
OpenBlocked(f) ==
  LET out == args.output_file
      dir == SubSeq(out, 1, Len(out) - 1)
  IN \/ out \in DOMAIN f /\ (f[out].kind = "dir" \/ f[out].perm = "none")
     \/ DirWithout(f, dir, {"rwx", "rx", "wx", "x"})
     \/ out \notin DOMAIN f /\ DirWithout(f, dir, {"rwx", "wx"})

\* The last record of the log.
LastLog == log[Len(log)]

Logged(level, msg) == \E k \in 1..Len(log) : log[k].level = level /\ log[k].msg = msg

(***************************************************************************)
(* C1                                                                      *)
(***************************************************************************)

\* Every regular ".txt" file of the source directory is validly named and
\* readable.
AllValid ==
  /\ IsDir(fs0, args.source_dir)
  /\ \A p \in RegularTxt(fs0, args.source_dir) :
        ValidName(p[Len(p)]) /\ Readable(fs0, p)

\* C1: when every regular ".txt" file of the source directory is validly
\* named and readable, the document a run leaves is the blocks of these
\* files, each once and nothing else, in an order in which the integers of
\* the names do not decrease.
C1_OneBlockPerFileInOrder ==
  (pc = "done" /\ AllValid) =>
    \E l \in Listings(RegularTxt(fs0, args.source_dir)) :
       /\ \A i, j \in 1..Len(l) :
             i < j => OrderKey(l[i][Len(l[i])]) <= OrderKey(l[j][Len(l[j])])
       /\ OutputData = DocumentOfFiles(l, fs0)

\* A run has ended over three valid files whose path order is not the order
\* of their integers.
C1_Witness ==
  /\ pc = "done"
  /\ AllValid
  /\ Cardinality(RegularTxt(fs0, args.source_dir)) = 3
  /\ SourceDir \o <<ZNeg>> \in RegularTxt(fs0, args.source_dir)
  /\ SourceDir \o <<N3>> \in RegularTxt(fs0, args.source_dir)

(***************************************************************************)
(* C2                                                                      *)
(***************************************************************************)

\* C2: when the source path does not exist or is no directory, the
\* constructor fails with the directory-not-found error, so that the run
\* never gets to scan or read.
C2_FailsUnlessDirectory ==
  ~IsDir(fs0, args.source_dir) =>
     /\ pc \in {"main", "failed"}
     /\ pc = "failed" => raised = [exc |-> "FileNotFoundError", at |-> "__init__"]

(***************************************************************************)
(* C3                                                                      *)
(***************************************************************************)

\* C3: when the source directory does not exist, main ends with the
\* directory-not-found error of the constructor, logged at the top level,
\* collect_files and create_markdown are never reached, and the filesystem
\* stays as it was: no output file, no parent directory.
C3_MissingSourceLeavesNoTrace ==
  args.source_dir \notin DOMAIN fs0 =>
     /\ fs = fs0
     /\ handles = {}
     /\ pc \in {"main", "failed"}
     /\ pc = "failed" =>
          /\ raised = [exc |-> "FileNotFoundError", at |-> "__init__"]
          /\ log = <<LogRec("ERROR", "Critical error", <<>>, 0)>>

\* main has ended on a missing source directory, with an output path whose
\* parent is missing too.
C3_Witness ==
  /\ pc = "failed"
  /\ args.source_dir \notin DOMAIN fs0
  /\ args.output_file \notin DOMAIN fs
  /\ OutParent \notin DOMAIN fs

(***************************************************************************)
(* C4                                                                      *)
(***************************************************************************)

\* C4: once collect_files has returned, a ".txt" file whose name has no
\* order key or that cannot be read as UTF-8 has no record and, when it
\* is a candidate, an error naming it is in the log; every other ".txt"
\* file has exactly one record with its text, and its block is in the
\* document of a run that ended well; collect_files raises for no file:
\* only when finding the candidates fails, before any file is opened.
C4_FailuresAreIsolated ==
  /\ Collected /\ IsDir(fs0, args.source_dir) =>
       \A p \in RegularTxt(fs0, args.source_dir) :
          LET name == p[Len(p)]
              recs == {i \in 1..Len(text_files) : text_files[i].filename = name}
          IN IF Qualifies(fs0, p)
               THEN /\ Cardinality(recs) = 1
                    /\ \A i \in recs : text_files[i].content = TextOf(fs0[p].data)
                    /\ pc = "done" =>
                         Contains(OutputData, Block(name, TextOf(fs0[p].data)))
               ELSE /\ recs = {}
                    /\ p \in CandidateFiles(fs0, args.source_dir) =>
                          \E k \in 1..Len(log) :
                             /\ log[k].level = "ERROR"
                             /\ log[k].msg = "Error reading file"
                             /\ log[k].name = p
                    /\ Readable(fs0, p) =>
                          \E k \in 1..Len(log) :
                             /\ log[k].level = "ERROR"
                             /\ log[k].msg = "Error processing filename"
                             /\ log[k].name = name
  /\ raised.at = "collect_files" =>
       /\ raised.exc \in {"OSError", "PermissionError"}
       /\ txt_files = <<>>
       /\ ~Logged("ERROR", "Error reading file")

\* A run has ended well over a file without "_", a file that is not UTF-8
\* and a file that qualifies.
C4_Witness ==
  /\ pc = "done"
  /\ SourceDir \o <<Bad>> \in RegularTxt(fs0, args.source_dir)
  /\ \E p \in RegularTxt(fs0, args.source_dir) :
        HasOrderKey(p[Len(p)]) /\ ~IsUtf8(fs0[p].data)
  /\ Len(text_files) = 1
  /\ OutputData # <<>>

(***************************************************************************)
(* C6                                                                      *)
(***************************************************************************)

\* The entries of filesystem f at and below the source path.
SourcePart(f) ==
  {<<p, f[p]>> : p \in {q \in DOMAIN f : q[1] = args.source_dir[1]}}

\* C6: after create_markdown has returned, the output file holds the blocks
\* of the records it was given and nothing of what it held before; a run
\* that follows a run over the same source directory leaves what that run
\* left; and a parent directory that exists makes no error.
C6_OverwriteSemantics ==
  /\ pc = "done" => OutputData = DocumentOfRecords(text_files)
  /\ (pc = "done" /\ prev.status = "done"
        /\ SourcePart(fs0) = SourcePart(prev.fs0)) =>
       OutputData = prev.fs[args.output_file].data
  /\ IsDir(fs0, Parent(args.output_file)) =>
       /\ raised.exc \notin {"FileExistsError", "NotADirectoryError"}
       /\ Collected /\ pc # "write" =>
            {p \in DOMAIN fs : fs[p].kind = "dir"} = {p \in DOMAIN fs0 : fs0[p].kind = "dir"}

\* A second run has ended well over the source directory of the first,
\* which ended well too and found an output file with other text.
C6_Witness ==
  /\ pc = "done"
  /\ runs = 2
  /\ prev.status = "done"
  /\ SourcePart(fs0) = SourcePart(prev.fs0)
  /\ args.output_file \in DOMAIN prev.fs0
  /\ prev.fs0[args.output_file].data = <<"Z">>
  /\ Len(text_files) >= 2

(***************************************************************************)
(* C7                                                                      *)
(***************************************************************************)

\* The output file holds the whole document of the records.
WholeDocument ==
  /\ IsFile(fs, args.output_file)
  /\ OutputData = DocumentOfRecords(text_files)

\* C7: when collect_files has returned and the parent directories cannot
\* be made, the output file cannot be opened, or not all of the document
\* reaches the output file, main ends with the exception of create_markdown:
\* the error is logged, the count of records is not, nothing runs after it,
\* no file is left open, and the output file holds the part of the document
\* that reached it before the failure.
C7_WriteFailureIsFatal ==
  (/\ Ended
   /\ raised.at \notin {"__init__", "collect_files"}
   /\ MkdirBlocked(fs0) \/ OpenBlocked(fs0) \/ ~WholeDocument) =>
    /\ pc = "failed"
    /\ raised.at = "create_markdown"
    /\ raised.exc # "none"
    /\ LastLog = LogRec("ERROR", "Critical error", <<>>, 0)
    /\ ~Logged("INFO", "Created file")
    /\ ~MkdirBlocked(fs0) => Logged("ERROR", "Error creating markdown file")
    /\ handles = {}
    /\ (MkdirBlocked(fs0) \/ OpenBlocked(fs0)) => fs = fs0
    /\ (~MkdirBlocked(fs0) /\ ~OpenBlocked(fs0)) =>
         /\ IsPrefix(OutputData, DocumentOfRecords(text_files))
         /\ OutputData # DocumentOfRecords(text_files)
    /\ ~ENABLED Next

\* The flush has failed after the first of two blocks, which is in the file.
C7_Witness ==
  /\ pc = "failed"
  /\ raised = [exc |-> "OSError", at |-> "create_markdown"]
  /\ Len(text_files) = 2
  /\ OutputData = Block(text_files[1].filename, text_files[1].content)

(***************************************************************************)
(* C8                                                                      *)
(***************************************************************************)

\* The source directory exists and no file of it qualifies.
NoneQualifies ==
  /\ IsDir(fs0, args.source_dir)
  /\ \A p \in RegularTxt(fs0, args.source_dir) : ~Qualifies(fs0, p)

\* C8: when the source directory holds no ".txt" file that qualifies,
\* collect_files returns the empty list (it raises only when the directory
\* cannot be listed), create_markdown leaves an output file of zero bytes
\* and logs the count 0, and main fails only when the output path cannot be
\* prepared or opened.
C8_NothingQualifies ==
  NoneQualifies =>
    /\ Collected => text_files = <<>>
    /\ raised.at # "__init__"
    /\ raised.at = "collect_files" => txt_files = <<>>
    /\ pc = "done" =>
         /\ IsFile(fs, args.output_file)
         /\ OutputData = <<>>
         /\ LastLog = LogRec("INFO", "Created file", args.output_file, 0)
         /\ raised = NoExc
    /\ (pc = "failed" /\ raised.at = "create_markdown") =>
         MkdirBlocked(fs0) \/ OpenBlocked(fs0)

\* A run over a directory whose only ".txt" entries are a directory and a
\* file without "_" has ended well and emptied an output file that held
\* text.
C8_Witness ==
  /\ NoneQualifies
  /\ pc = "done"
  /\ \E p \in DOMAIN fs0 : EndsWithTxt(p[Len(p)]) /\ fs0[p].kind = "dir"
  /\ SourceDir \o <<Bad>> \in RegularTxt(fs0, args.source_dir)
  /\ args.output_file \in DOMAIN fs0
  /\ fs0[args.output_file].data = <<"Z">>
  /\ OutputData = <<>>

(***************************************************************************)
(* C9                                                                      *)
(***************************************************************************)

\* C9: at most one file is open; a source file is open only while it is
\* read, and is closed when the loop goes on, also after an error; the
\* output file is open only while create_markdown writes, after every read;
\* no file changes before the output file is opened, and none at all when
\* the constructor or collect_files raised; an output file that is a ".txt"
\* file of the source directory is read in full before it is truncated.
C9_OneHandleCollectBeforeWrite ==
  /\ Cardinality(handles) <= 1
  /\ \A h \in handles :
        /\ h.mode = "r" => pc = "read" /\ h.path = txt_files[idx]
        /\ h.mode = "w" => pc = "writing" /\ h.path = args.output_file
  /\ pc \notin {"read", "writing"} => handles = {}
  /\ pc \in {"main", "collect", "loop", "read", "write"} => fs = fs0
  /\ pc = "open" => \A p \in DOMAIN fs0 : fs[p] = fs0[p]
  /\ raised.at \in {"__init__", "collect_files"} => fs = fs0
  /\ (/\ pc \in {"writing", "done"}
      /\ IsDir(fs0, args.source_dir)
      /\ args.output_file \in RegularTxt(fs0, args.source_dir)
      /\ Qualifies(fs0, args.output_file)) =>
       \E i \in 1..Len(text_files) :
          /\ text_files[i].filename = Name(args.output_file)
          /\ text_files[i].content = TextOf(fs0[args.output_file].data)

\* The output file, a ".txt" file of the source directory that held text,
\* is open for writing after a source file could not be parsed, and the
\* record of its old text is there.
C9_Witness ==
  /\ pc = "writing"
  /\ handles = {[path |-> args.output_file, mode |-> "w"]}
  /\ args.output_file \in RegularTxt(fs0, args.source_dir)
  /\ fs0[args.output_file].data = <<"B">>
  /\ OutputData = <<>>
  /\ Logged("ERROR", "Error processing filename")
  /\ \E i \in 1..Len(text_files) : text_files[i].content = <<"B">>

(***************************************************************************)
(* C10                                                                     *)
(***************************************************************************)

\* C10: the paths are read in ascending order of their names however the
\* directory lists them; while they are read the records are in that
\* order; the list collect_files returns is ascending by order and, among
\* records of equal order, by name, and holds the record of every file
\* that qualifies and no other: it is a function of the names and the data
\* of the files.
C10_ResultIsDetermined ==
  /\ (pc \in {"loop", "read"} \/ Collected) =>
       /\ {txt_files[i] : i \in 1..Len(txt_files)}
            = (IF IsDir(fs0, args.source_dir)
                 THEN CandidateFiles(fs0, args.source_dir) ELSE {})
       /\ \A i, j \in 1..Len(txt_files) :
             i < j => StrLess(Name(txt_files[i]), Name(txt_files[j]))
  /\ pc \in {"loop", "read"} =>
       \A i, j \in 1..Len(text_files) :
          i < j => StrLess(text_files[i].filename, text_files[j].filename)
  /\ Collected =>
       /\ \A i, j \in 1..Len(text_files) :
             i < j =>
               \/ text_files[i].order < text_files[j].order
               \/ /\ text_files[i].order = text_files[j].order
                  /\ StrLess(text_files[i].filename, text_files[j].filename)
       /\ {text_files[i] : i \in 1..Len(text_files)}
            = {TextFile(Name(p), TextOf(fs0[p].data), OrderKey(Name(p))) :
                 p \in {q \in RegularTxt(fs0, args.source_dir) : Qualifies(fs0, q)}}

\* collect_files has returned two records of equal order next to a record
\* whose name sorts last and whose order is the least.
C10_Witness ==
  /\ pc = "write"
  /\ Len(text_files) = 3
  /\ text_files[1].filename = ZNeg
  /\ text_files[2].order = text_files[3].order
  /\ text_files[2].filename = A2
  /\ text_files[3].filename = N2

(***************************************************************************)
(* C5                                                                      *)
(***************************************************************************)

\* C5: from_filename returns a record exactly when the second "_"-separated
\* token of the part of the name before the first "@" is the text of an
\* integer, the record's order is that integer (42 for
\* voice_42@2023-01-01.txt, 1 for a_1_2@x.txt), the order does not change
\* with what follows the first "@", and a name without such a token raises
\* and leaves no record.
C5_OrderIsSecondToken ==
  pc \in {"returned", "raised"} =>
    LET name == Name(txt_files[idx]) IN
    /\ (pc = "returned") = HasOrderKey(name)
    /\ pc = "returned" =>
         /\ Len(text_files) = 1
         /\ text_files[1].filename = name
         /\ text_files[1].order = OrderKey(name)
         /\ \A tail \in {<<>>, <<"@", "7", "_", "9">>, <<"@", "@">>} :
              /\ from_filename(WithTail(name, tail), <<>>).ok
              /\ from_filename(WithTail(name, tail), <<>>).rec.order
                   = text_files[1].order
         /\ name = Voice42 => text_files[1].order = 42
         /\ name = A12 => text_files[1].order = 1
    /\ pc = "raised" =>
         /\ text_files = <<>>
         /\ raised.exc \in {"IndexError", "ValueError"}
         /\ (raised.exc = "IndexError") = ~HasKeyToken(name)

\* from_filename has returned the record of a name with three "_"-separated
\* tokens and text after the "@".
C5_Witness ==
  /\ pc = "returned"
  /\ Name(txt_files[idx]) = A12
  /\ text_files[1].order = 1

====
